---- MODULE Spec2Model ----
(***************************************************************************)
(* keyring-rs: the Entry facade (src/lib.rs) over the macOS keychain       *)
(* backend (src/macos.rs).                                                 *)
(*                                                                         *)
(* The native keychain is an external store: a map from (domain, service,  *)
(* account) to the bytes of a generic password.  Every native call may     *)
(* fail with a native error code.  An operation of the backend is a        *)
(* sequence of native calls; the position of each caller inside its        *)
(* operation is part of the state, so that callers interleave between      *)
(* native calls.                                                           *)
(*                                                                         *)
(* Option values are sequences: <<>> is None and <<x>> is Some(x).         *)
(* A Rust string is the sequence of its chars (code points); a Vec<u8> is  *)
(* a sequence of bytes 0..255.                                             *)
(***************************************************************************)
EXTENDS Integers, Sequences, FiniteSets, TLC

VARIABLES store, target, ctor, call, result, lastSet, input, output, serial

vars == <<store, target, ctor, call, result, lastSet, input, output, serial>>

(***************************************************************************)
(* Bounds of the model.                                                    *)
(***************************************************************************)
MaxLen == 3

\* Two independent callers, each holding at most one Entry.
Callers == {"c1", "c2"}

None == <<>>
Some(x) == <<x>>

(***************************************************************************)
(* Platform and PlatformCredential (credential.rs is not among the         *)
(* sources: the credential model follows the specification).               *)
(***************************************************************************)
Platform == {"Linux", "MacOs", "Windows"}

MacKeychainDomain == {"User", "System", "Common", "Dynamic"}

platform == "MacOs"

MacCredential(domain, service, account) ==
    [tag |-> "Mac", domain |-> domain, service |-> service, account |-> account]

WinCredential(target_name) ==
    [tag |-> "Win", target_name |-> target_name]

LinuxCredential(collection, service, account) ==
    [tag |-> "Linux", collection |-> collection, service |-> service,
     account |-> account]

matches_platform(cred, p) ==
    \/ cred.tag = "Mac" /\ p = "MacOs"
    \/ cred.tag = "Win" /\ p = "Windows"
    \/ cred.tag = "Linux" /\ p = "Linux"

\* The total mapping of a target string to a keychain domain; unrecognised
\* text falls back to User.
domain_from(t) ==
    CASE t = "system" -> "System"
      [] t = "common" -> "Common"
      [] t = "dynamic" -> "Dynamic"
      [] OTHER -> "User"

\* tgt is an Option: None or Some(target string).
default_target(p, tgt, service, username) ==
    CASE p = "MacOs" ->
            MacCredential(IF tgt = None THEN "User" ELSE domain_from(tgt[1]),
                          service, username)
      [] p = "Windows" ->
            WinCredential(IF tgt = None THEN service \o "." \o username
                          ELSE tgt[1])
      [] p = "Linux" ->
            LinuxCredential(IF tgt = None THEN "default" ELSE tgt[1],
                            service, username)

(***************************************************************************)
(* Error taxonomy and the native error codes decode_error names.           *)
(***************************************************************************)
errSecSuccess == 0
errSecNotAvailable == -25291
errSecReadOnly == -25292
errSecAuthFailed == -25293
errSecNoSuchKeychain == -25294
errSecInvalidKeychain == -25295
errSecItemNotFound == -25300
errSecInvalidItemRef == -25304

NoEntry == [kind |-> "NoEntry"]
WrongCredentialPlatform == [kind |-> "WrongCredentialPlatform"]
BadEncoding(bytes) == [kind |-> "BadEncoding", bytes |-> bytes]
NoStorageAccess(code) == [kind |-> "NoStorageAccess", code |-> code]
PlatformFailure(code) == [kind |-> "PlatformFailure", code |-> code]

\* decode_error without the NoStorageAccess arms.
decode_error_PlatformFailureOnly(code) ==
    IF code = errSecItemNotFound THEN NoEntry ELSE PlatformFailure(code)

\* decode_error without the errSecItemNotFound arm.
decode_error_without_not_found(code) ==
    IF code \in {errSecNotAvailable, errSecReadOnly, errSecNoSuchKeychain,
                 errSecInvalidKeychain}
    THEN NoStorageAccess(code) ELSE PlatformFailure(code)

decode_error(code) ==
    CASE code = errSecNotAvailable -> NoStorageAccess(code)
      [] code = errSecReadOnly -> NoStorageAccess(code)
      [] code = errSecNoSuchKeychain -> NoStorageAccess(code)
      [] code = errSecInvalidKeychain -> NoStorageAccess(code)
      [] code = errSecItemNotFound -> NoEntry
      [] OTHER -> PlatformFailure(code)

(***************************************************************************)
(* UTF-8: str::as_bytes and String::from_utf8.                             *)
(***************************************************************************)
Utf8EncodeChar(cp) ==
    IF cp < 128 THEN <<cp>>
    ELSE IF cp < 2048 THEN <<192 + (cp \div 64), 128 + (cp % 64)>>
    ELSE IF cp < 65536 THEN
        <<224 + (cp \div 4096), 128 + ((cp \div 64) % 64), 128 + (cp % 64)>>
    ELSE <<240 + (cp \div 262144), 128 + ((cp \div 4096) % 64),
           128 + ((cp \div 64) % 64), 128 + (cp % 64)>>

RECURSIVE as_bytes(_)
as_bytes(s) ==
    IF s = <<>> THEN <<>> ELSE Utf8EncodeChar(Head(s)) \o as_bytes(Tail(s))

Utf8CharWidth(b) ==
    IF b < 128 THEN 1
    ELSE IF b \in 194..223 THEN 2
    ELSE IF b \in 224..239 THEN 3
    ELSE IF b \in 240..244 THEN 4
    ELSE 0

IsContinuation(b) == b \in 128..191

\* The second byte a three- or four-byte sequence admits after `first`.
SecondByteOk(first, b) ==
    CASE first = 224 -> b \in 160..191
      [] first \in 225..236 -> b \in 128..191
      [] first = 237 -> b \in 128..159
      [] first \in 238..239 -> b \in 128..191
      [] first = 240 -> b \in 144..191
      [] first \in 241..243 -> b \in 128..191
      [] first = 244 -> b \in 128..143
      [] OTHER -> FALSE

\* from_utf8 from position i: [ok, chars]; ok = FALSE is a FromUtf8Error.
RECURSIVE from_utf8_at(_, _)
from_utf8_at(bytes, i) ==
    IF i > Len(bytes) THEN [ok |-> TRUE, chars |-> <<>>]
    ELSE
    LET first == bytes[i]
        w == Utf8CharWidth(first)
        fits == i + w - 1 <= Len(bytes)
        good ==
            CASE w = 1 -> TRUE
              [] w = 2 -> fits /\ IsContinuation(bytes[i + 1])
              [] w = 3 -> fits /\ SecondByteOk(first, bytes[i + 1])
                               /\ IsContinuation(bytes[i + 2])
              [] w = 4 -> fits /\ SecondByteOk(first, bytes[i + 1])
                               /\ IsContinuation(bytes[i + 2])
                               /\ IsContinuation(bytes[i + 3])
              [] OTHER -> FALSE
    IN  IF ~good THEN [ok |-> FALSE, chars |-> <<>>]
        ELSE
        LET cp ==
                CASE w = 1 -> first
                  [] w = 2 -> (first - 192) * 64 + (bytes[i + 1] - 128)
                  [] w = 3 -> (first - 224) * 4096 + (bytes[i + 1] - 128) * 64
                                + (bytes[i + 2] - 128)
                  [] OTHER -> (first - 240) * 262144
                                + (bytes[i + 1] - 128) * 4096
                                + (bytes[i + 2] - 128) * 64
                                + (bytes[i + 3] - 128)
            rest == from_utf8_at(bytes, i + w)
        IN  IF rest.ok THEN [ok |-> TRUE, chars |-> <<cp>> \o rest.chars]
            ELSE rest

from_utf8(bytes) == from_utf8_at(bytes, 1)

(***************************************************************************)
(* Results: Result<T, Error> as a record of one shape.                     *)
(***************************************************************************)
NoResult == [tag |-> "none", password |-> None, credential |-> None, err |-> None]
Ok(password, credential) ==
    [tag |-> "Ok", password |-> password, credential |-> credential, err |-> None]
Err(e) == [tag |-> "Err", password |-> None, credential |-> None, err |-> Some(e)]

\* decode_password through a lossy conversion: U+FFFD for what is malformed.
decode_password_lossy(bytes) ==
    LET r == from_utf8(bytes)
    IN  IF r.ok THEN Ok(Some(r.chars), None) ELSE Ok(Some(<<65533>>), None)

decode_password(bytes) ==
    LET r == from_utf8(bytes)
    IN  IF r.ok THEN Ok(Some(r.chars), None) ELSE Err(BadEncoding(bytes))

(***************************************************************************)
(* The inputs callers draw from.                                           *)
(***************************************************************************)
Services == {"svc"}
Users == {"alice"}
Targets == {"system", "backup"}

\* "a" and "e-acute": one and two bytes of UTF-8.
Passwords == {<<97>>, <<233>>}

\* The credentials a caller may hand to new_with_credential or to the backend.
Credentials ==
    { default_target(p, Some("system"), s, u) :
        p \in Platform, s \in Services, u \in Users }

\* The addresses of the native keychain that the callers can name.
MacAddrs ==
    { MacCredential(d, s, u) :
        d \in {"User", "System"}, s \in Services, u \in Users }

\* The codes a failing native call reports in this model: one that
\* decode_error maps to NoStorageAccess, one that it leaves unclassified.
KeychainFailures == {errSecNoSuchKeychain}
ItemFailures == {errSecAuthFailed}

(***************************************************************************)
(* Pure-function inputs: byte strings, chars and native codes.             *)
(***************************************************************************)
CodeSpan == 30

NativeCodes ==
    ((errSecItemNotFound - CodeSpan)..(errSecNotAvailable + CodeSpan))
    \cup {-128, -50, -4, 1, 25300}

\* Bytes of every class of the UTF-8 table: ASCII, continuation bytes of the
\* three ranges, overlong and valid leads of each width, invalid bytes.
ByteSample == {65, 128, 159, 160, 191, 192, 194, 224, 237, 240, 244, 255}

RECURSIVE SeqsUpTo(_, _)
SeqsUpTo(S, n) ==
    IF n = 0 THEN {<<>>}
    ELSE LET shorter == SeqsUpTo(S, n - 1)
         IN  shorter \cup { Append(q, x) : q \in shorter, x \in S }

ByteStrings == SeqsUpTo(ByteSample, MaxLen)

\* Chars at the edges of every encoded width, and around the surrogate gap.
CharSample == {0, 127, 128, 2047, 2048, 55295, 57344, 65535, 65536, 1114111}

CharStrings == SeqsUpTo(CharSample, MaxLen - 1)

NoInput == [kind |-> "none", bytes |-> <<>>, chars |-> None, code |-> 0]

\* Raw bytes; the bytes of a string (chars: the string); a native code.
PureInputs ==
    { [kind |-> "bytes", bytes |-> b, chars |-> None, code |-> 0] :
        b \in ByteStrings }
    \cup { [kind |-> "bytes", bytes |-> as_bytes(s), chars |-> Some(s),
             code |-> 0] : s \in CharStrings }
    \cup { [kind |-> "code", bytes |-> <<>>, chars |-> None, code |-> n] :
             n \in NativeCodes }

(***************************************************************************)
(* State.                                                                  *)
(***************************************************************************)
IdleCall ==
    [pc |-> "idle", op |-> "none", map |-> None, password |-> <<>>,
     ncalls |-> 0, failed |-> None, found |-> None, removed |-> FALSE]

NoCtor ==
    [kind |-> "none", tgt |-> None, service |-> "", username |-> "",
     cred |-> None, ok |-> FALSE]

\* What the calls that returned Ok so far say an address holds: nothing said
\* yet, the password of the last set, or nothing since the last delete.
NeverSet == [known |-> FALSE, password |-> None]
LastSet(pw) == [known |-> TRUE, password |-> Some(pw)]
Deleted == [known |-> TRUE, password |-> None]

Init ==
    /\ store = [a \in MacAddrs |-> None]
    /\ target = [c \in Callers |-> None]
    /\ ctor = [c \in Callers |-> NoCtor]
    /\ call = [c \in Callers |-> IdleCall]
    /\ result = [c \in Callers |-> NoResult]
    /\ lastSet = [a \in MacAddrs |-> NeverSet]
    /\ input = NoInput
    /\ output = NoResult
    /\ serial = FALSE

(***************************************************************************)
(* Entry constructors (lib.rs).  A caller constructs its Entry once; a     *)
(* rejected new_with_credential leaves the caller without an Entry.        *)
(***************************************************************************)
Entry_new(c, service, username) ==
    /\ target[c] = None
    /\ call[c].pc = "idle"
    /\ target' = [target EXCEPT
                    ![c] = Some(default_target(platform, None, service, username))]
    /\ ctor' = [ctor EXCEPT
                  ![c] = [kind |-> "new", tgt |-> None, service |-> service,
                          username |-> username, cred |-> None, ok |-> TRUE]]
    /\ UNCHANGED <<store, call, result, lastSet, input, output, serial>>

\* new_with_target that drops its target argument.
Entry_new_with_target_dropping_target(c, t, service, username) ==
    /\ target[c] = None
    /\ call[c].pc = "idle"
    /\ target' = [target EXCEPT
                    ![c] = Some(default_target(platform, None, service, username))]
    /\ ctor' = [ctor EXCEPT
                  ![c] = [kind |-> "new_with_target", tgt |-> Some(t),
                          service |-> service, username |-> username,
                          cred |-> None, ok |-> TRUE]]
    /\ UNCHANGED <<store, call, result, lastSet, input, output, serial>>

Entry_new_with_target(c, t, service, username) ==
    /\ target[c] = None
    /\ call[c].pc = "idle"
    /\ target' = [target EXCEPT
                    ![c] = Some(default_target(platform, Some(t), service,
                                               username))]
    /\ ctor' = [ctor EXCEPT
                  ![c] = [kind |-> "new_with_target", tgt |-> Some(t),
                          service |-> service, username |-> username,
                          cred |-> None, ok |-> TRUE]]
    /\ UNCHANGED <<store, call, result, lastSet, input, output, serial>>

\* new_with_credential without the platform check.
Entry_new_with_credential_unchecked(c, cred) ==
    /\ target[c] = None
    /\ call[c].pc = "idle"
    /\ target' = [target EXCEPT ![c] = Some(cred)]
    /\ ctor' = [ctor EXCEPT
                  ![c] = [kind |-> "new_with_credential", tgt |-> None,
                          service |-> "", username |-> "",
                          cred |-> Some(cred), ok |-> TRUE]]
    /\ UNCHANGED <<store, call, result, lastSet, input, output, serial>>

Entry_new_with_credential(c, cred) ==
    /\ target[c] = None
    /\ call[c].pc = "idle"
    /\ IF matches_platform(cred, platform)
       THEN /\ target' = [target EXCEPT ![c] = Some(cred)]
            /\ ctor' = [ctor EXCEPT
                          ![c] = [kind |-> "new_with_credential", tgt |-> None,
                                  service |-> "", username |-> "",
                                  cred |-> Some(cred), ok |-> TRUE]]
       ELSE /\ target' = target
            /\ ctor' = [ctor EXCEPT
                          ![c] = [kind |-> "new_with_credential", tgt |-> None,
                                  service |-> "", username |-> "",
                                  cred |-> Some(cred), ok |-> FALSE]]
    /\ UNCHANGED <<store, call, result, lastSet, input, output, serial>>

(***************************************************************************)
(* The backend (macos.rs).  Each backend function starts with the variant  *)
(* check and get_keychain; its native item calls are the next steps.       *)
(***************************************************************************)
\* SecKeychain::default_for_domain reported kc.
get_keychain(map, kc) ==
    IF kc = errSecSuccess THEN Ok(None, None) ELSE Err(decode_error(kc))

\* Callers that serialise their operations start one only while no other
\* caller is inside one; independent callers start one at any time.
Scheduled(c) == serial => \A d \in Callers \ {c} : call[d].pc = "idle"

\* Enter without the variant check: any credential goes on to get_keychain.
Enter_without_variant_check(c, op, map, pw, kc) ==
    /\ call[c].pc = "idle"
    /\ Scheduled(c)
    /\ call' = [call EXCEPT
          ![c] = [pc |-> IF kc = errSecSuccess THEN "item" ELSE "idle",
                  op |-> op, map |-> Some(map), password |-> pw, ncalls |-> 1,
                  failed |-> IF kc = errSecSuccess THEN None ELSE Some(kc),
                  found |-> None, removed |-> FALSE]]
    /\ result' = [result EXCEPT
          ![c] = IF kc = errSecSuccess THEN NoResult ELSE get_keychain(map, kc)]
    /\ UNCHANGED <<store, target, ctor, lastSet, input, output, serial>>

\* Caller c enters backend function op with address map: the variant check,
\* then get_keychain; on success the item call is next.
Enter(c, op, map, pw, kc) ==
    /\ call[c].pc = "idle"
    /\ Scheduled(c)
    /\ IF map.tag = "Mac"
       THEN LET k == get_keychain(map, kc)
            IN  IF k.tag = "Err"
                THEN /\ call' = [call EXCEPT
                           ![c] = [pc |-> "idle", op |-> op, map |-> Some(map),
                                   password |-> pw, ncalls |-> 1,
                                   failed |-> Some(kc), found |-> None,
                                   removed |-> FALSE]]
                     /\ result' = [result EXCEPT ![c] = k]
                ELSE /\ call' = [call EXCEPT
                           ![c] = [pc |-> "item", op |-> op, map |-> Some(map),
                                   password |-> pw, ncalls |-> 1,
                                   failed |-> None, found |-> None,
                                   removed |-> FALSE]]
                     /\ result' = [result EXCEPT ![c] = NoResult]
       ELSE /\ call' = [call EXCEPT
                  ![c] = [pc |-> "idle", op |-> op, map |-> Some(map),
                          password |-> pw, ncalls |-> 0, failed |-> None,
                          found |-> None, removed |-> FALSE]]
            /\ result' = [result EXCEPT ![c] = Err(WrongCredentialPlatform)]
    /\ UNCHANGED <<store, target, ctor, lastSet, input, output, serial>>

set_password(c, map, pw, kc) == Enter(c, "set", map, pw, kc)

get_password(c, op, map, kc) == Enter(c, op, map, <<>>, kc)

delete_password(c, map, kc) == Enter(c, "delete", map, <<>>, kc)

\* What find_generic_password reports for address a when the call itself
\* fails with r (errSecSuccess: it does not fail).
find_code(a, r) ==
    IF r # errSecSuccess THEN r
    ELSE IF store[a] = None THEN errSecItemNotFound
    ELSE errSecSuccess

\* set_generic_password that looks the item up by service and account in
\* every keychain, whatever the domain.
set_generic_password_any_domain(c, r) ==
    /\ call[c].pc = "item"
    /\ call[c].op = "set"
    /\ r = errSecSuccess
    /\ LET a == call[c].map[1]
           pw == call[c].password
           same == { b \in MacAddrs :
                      b.service = a.service /\ b.account = a.account }
       IN  /\ store' = [b \in MacAddrs |->
                          IF b \in same THEN Some(as_bytes(pw)) ELSE store[b]]
           /\ lastSet' = [lastSet EXCEPT ![a] = LastSet(pw)]
           /\ call' = [call EXCEPT ![c].pc = "idle", ![c].ncalls = @ + 1]
           /\ result' = [result EXCEPT ![c] = Ok(None, None)]
    /\ UNCHANGED <<target, ctor, input, output, serial>>

\* set_generic_password called again after a failure.
set_generic_password_retrying(c, r) ==
    /\ call[c].pc = "item"
    /\ call[c].op = "set"
    /\ LET a == call[c].map[1]
           pw == call[c].password
       IN  /\ store' = [store EXCEPT ![a] = Some(as_bytes(pw))]
           /\ lastSet' = [lastSet EXCEPT ![a] = LastSet(pw)]
           /\ call' = [call EXCEPT
                 ![c].pc = "idle",
                 ![c].ncalls = IF r = errSecSuccess THEN @ + 1 ELSE @ + 2]
           /\ result' = [result EXCEPT ![c] = Ok(None, None)]
    /\ UNCHANGED <<target, ctor, input, output, serial>>

\* set_password, line 29: keychain.set_generic_password(service, account, bytes).
set_generic_password(c, r) ==
    /\ call[c].pc = "item"
    /\ call[c].op = "set"
    /\ LET a == call[c].map[1]
           pw == call[c].password
       IN  IF r = errSecSuccess
           THEN /\ store' = [store EXCEPT ![a] = Some(as_bytes(pw))]
                /\ lastSet' = [lastSet EXCEPT ![a] = LastSet(pw)]
                /\ call' = [call EXCEPT ![c].pc = "idle", ![c].ncalls = @ + 1]
                /\ result' = [result EXCEPT ![c] = Ok(None, None)]
           ELSE /\ UNCHANGED <<store, lastSet>>
                /\ call' = [call EXCEPT ![c].pc = "idle", ![c].ncalls = @ + 1,
                                        ![c].failed = Some(r)]
                /\ result' = [result EXCEPT ![c] = Err(decode_error(r))]
    /\ UNCHANGED <<target, ctor, input, output, serial>>

\* Entry::get_password_and_credential, lines 79-80: the backend's result with
\* the (possibly enriched) address beside the password.
with_credential(res, map) ==
    IF res.tag = "Ok" THEN Ok(res.password, Some(map)) ELSE res

\* get_password, lines 39-42: find_generic_password, then decode_password.
get_find_generic_password(c, r) ==
    /\ call[c].pc = "item"
    /\ call[c].op \in {"get", "get_cred"}
    /\ LET a == call[c].map[1]
           code == find_code(a, r)
           res == IF code = errSecSuccess THEN decode_password(store[a][1])
                  ELSE Err(decode_error(code))
       IN  /\ call' = [call EXCEPT
                 ![c].pc = "idle", ![c].ncalls = @ + 1,
                 ![c].failed = IF code = errSecSuccess THEN None ELSE Some(code),
                 ![c].found = IF code = errSecSuccess THEN store[a] ELSE None]
           /\ result' = [result EXCEPT
                 ![c] = IF call[c].op = "get_cred" THEN with_credential(res, a)
                        ELSE res]
    /\ UNCHANGED <<store, target, ctor, lastSet, input, output, serial>>

\* delete_password, lines 50-52: find_generic_password yields the item.
delete_find_generic_password(c, r) ==
    /\ call[c].pc = "item"
    /\ call[c].op = "delete"
    /\ LET a == call[c].map[1]
           code == find_code(a, r)
       IN  IF code = errSecSuccess
           THEN /\ call' = [call EXCEPT ![c].pc = "delete", ![c].ncalls = @ + 1,
                                        ![c].found = store[a]]
                /\ result' = result
           ELSE /\ call' = [call EXCEPT ![c].pc = "idle", ![c].ncalls = @ + 1,
                                        ![c].failed = Some(code)]
                /\ result' = [result EXCEPT ![c] = Err(decode_error(code))]
    /\ UNCHANGED <<store, target, ctor, lastSet, input, output, serial>>

\* delete_password, lines 53-54: item.delete() and Ok(()).  The native
\* deletion succeeds (r = errSecSuccess, and the item is still there) or
\* fails; its status is not looked at.
item_delete(c, r) ==
    /\ call[c].pc = "delete"
    /\ LET a == call[c].map[1]
           gone == r = errSecSuccess /\ store[a] # None
       IN  /\ store' = IF gone THEN [store EXCEPT ![a] = None] ELSE store
           /\ lastSet' = [lastSet EXCEPT ![a] = Deleted]
           /\ call' = [call EXCEPT
                 ![c].pc = "idle", ![c].ncalls = @ + 1, ![c].removed = gone,
                 ![c].failed = IF gone THEN None
                               ELSE IF r = errSecSuccess
                                    THEN Some(errSecInvalidItemRef) ELSE Some(r)]
           /\ result' = [result EXCEPT ![c] = Ok(None, None)]
    /\ UNCHANGED <<target, ctor, input, output, serial>>

(***************************************************************************)
(* Entry operations (lib.rs): each hands the Entry's target to the backend.*)
(***************************************************************************)
KeychainOutcomes == {errSecSuccess} \cup KeychainFailures
ItemOutcomes == {errSecSuccess} \cup ItemFailures

Entry_set_password(c, pw, kc) ==
    /\ target[c] # None
    /\ set_password(c, target[c][1], pw, kc)

Entry_get_password(c, kc) ==
    /\ target[c] # None
    /\ get_password(c, "get", target[c][1], kc)

Entry_get_password_and_credential(c, kc) ==
    /\ target[c] # None
    /\ get_password(c, "get_cred", target[c][1], kc)

Entry_delete_password(c, kc) ==
    /\ target[c] # None
    /\ delete_password(c, target[c][1], kc)

Construct(c) ==
    \/ \E s \in Services, u \in Users : Entry_new(c, s, u)
    \/ \E t \in Targets, s \in Services, u \in Users :
          Entry_new_with_target(c, t, s, u)
    \/ \E cred \in Credentials : Entry_new_with_credential(c, cred)

Operate(c) ==
    \/ \E pw \in Passwords, kc \in KeychainOutcomes : Entry_set_password(c, pw, kc)
    \/ \E kc \in KeychainOutcomes : Entry_get_password(c, kc)
    \/ \E kc \in KeychainOutcomes : Entry_get_password_and_credential(c, kc)
    \/ \E kc \in KeychainOutcomes : Entry_delete_password(c, kc)

NativeStep(c) ==
    \/ \E r \in ItemOutcomes : set_generic_password(c, r)
    \/ \E r \in ItemOutcomes : get_find_generic_password(c, r)
    \/ \E r \in ItemOutcomes : delete_find_generic_password(c, r)
    \/ \E r \in ItemOutcomes : item_delete(c, r)

CallerStep(c) == Construct(c) \/ Operate(c) \/ NativeStep(c)

\* Independent callers: their native calls interleave.
Next == \E c \in Callers : CallerStep(c)

Spec == Init /\ [][Next]_vars

\* One operation at a time: the callers serialise their operations.
InitSeq ==
    /\ store = [a \in MacAddrs |-> None]
    /\ target = [c \in Callers |-> None]
    /\ ctor = [c \in Callers |-> NoCtor]
    /\ call = [c \in Callers |-> IdleCall]
    /\ result = [c \in Callers |-> NoResult]
    /\ lastSet = [a \in MacAddrs |-> NeverSet]
    /\ input = NoInput
    /\ output = NoResult
    /\ serial = TRUE

SpecSeq == InitSeq /\ [][Next]_vars

(***************************************************************************)
(* The backend called directly, by code that holds no Entry: the address   *)
(* is any credential, of this platform or of another.                      *)
(***************************************************************************)
BackendAddresses == Credentials

Backend_set_password(c, map, pw, kc) ==
    /\ target[c] = None
    /\ set_password(c, map, pw, kc)

Backend_get_password(c, map, kc) ==
    /\ target[c] = None
    /\ get_password(c, "get", map, kc)

Backend_delete_password(c, map, kc) ==
    /\ target[c] = None
    /\ delete_password(c, map, kc)

BackendCall(c) ==
    \/ \E map \in BackendAddresses, pw \in Passwords, kc \in KeychainOutcomes :
          Backend_set_password(c, map, pw, kc)
    \/ \E map \in BackendAddresses, kc \in KeychainOutcomes :
          Backend_get_password(c, map, kc)
    \/ \E map \in BackendAddresses, kc \in KeychainOutcomes :
          Backend_delete_password(c, map, kc)

NextBackend == \E c \in Callers : BackendCall(c) \/ NativeStep(c)

SpecBackend == Init /\ [][NextBackend]_vars

(***************************************************************************)
(* decode_error and decode_password over bounded inputs.  The keychain     *)
(* holds, at the default address, the bytes another application stored     *)
(* there (any byte string); caller c1 holds Entry::new for that address.   *)
(***************************************************************************)
DefaultService == CHOOSE s \in Services : TRUE
DefaultUser == CHOOSE u \in Users : TRUE
DefaultAddr == default_target(platform, None, DefaultService, DefaultUser)

InitPure ==
    /\ input \in PureInputs
    /\ output = NoResult
    /\ store = [a \in MacAddrs |->
                  IF a = DefaultAddr /\ input.kind = "bytes"
                  THEN Some(input.bytes) ELSE None]
    /\ target = [c \in Callers |-> IF c = "c1" THEN Some(DefaultAddr) ELSE None]
    /\ ctor = [c \in Callers |->
                 IF c = "c1"
                 THEN [kind |-> "new", tgt |-> None, service |-> DefaultService,
                       username |-> DefaultUser, cred |-> None, ok |-> TRUE]
                 ELSE NoCtor]
    /\ call = [c \in Callers |-> IdleCall]
    /\ result = [c \in Callers |-> NoResult]
    /\ lastSet = [a \in MacAddrs |-> NeverSet]
    /\ serial = TRUE

DecodePassword ==
    /\ input.kind = "bytes"
    /\ output = NoResult
    /\ output' = decode_password(input.bytes)
    /\ UNCHANGED <<store, target, ctor, call, result, lastSet, input, serial>>

DecodeError ==
    /\ input.kind = "code"
    /\ output = NoResult
    /\ output' = Err(decode_error(input.code))
    /\ UNCHANGED <<store, target, ctor, call, result, lastSet, input, serial>>

NextPure ==
    \/ DecodePassword
    \/ DecodeError
    \/ \E c \in Callers, kc \in KeychainOutcomes : Entry_get_password(c, kc)
    \/ \E c \in Callers, kc \in KeychainOutcomes :
          Entry_get_password_and_credential(c, kc)
    \/ \E c \in Callers, r \in ItemOutcomes : get_find_generic_password(c, r)

SpecPure == InitPure /\ [][NextPure]_vars

(***************************************************************************)
(* Properties.                                                             *)
(***************************************************************************)
\* Caller c takes a step of one of its operations.
Steps(c) == call'[c] # call[c] \/ result'[c] # result[c]

\* An operation op of caller c returns in this step.
Returns(c, ops) ==
    /\ Steps(c)
    /\ call'[c].pc = "idle"
    /\ call'[c].op \in ops

\* The result is one of the errors a failing native call maps to.
IsNativeFailure(res) ==
    /\ res.tag = "Err"
    /\ res.err[1].kind \in {"NoStorageAccess", "PlatformFailure"}

IsScalarValue(cp) == cp \in 0..55295 \/ cp \in 57344..1114111

\* C1: (SpecSeq) when get_password returns without a native failure, it
\* returns the password of the most recent set_password that returned Ok on
\* its address if no delete_password returned Ok after it, and NoEntry if
\* the most recent such call was a delete_password.
C1_RoundTrip ==
    [][\A c \in Callers :
         (Returns(c, {"get", "get_cred"}) /\ ~IsNativeFailure(result'[c]))
         => LET said == lastSet[call'[c].map[1]]
            IN  said.known =>
                  IF said.password = None
                  THEN result'[c] = Err(NoEntry)
                  ELSE /\ result'[c].tag = "Ok"
                       /\ result'[c].password = said.password]_vars

\* C2: (SpecBackend) a backend operation given a credential that is not the
\* Mac variant returns WrongCredentialPlatform in the step that enters it,
\* having made no native call and leaving the store unchanged; a caller that
\* has made a native call holds a Mac credential.
C2_WrongPlatformNoNativeCall ==
    [][\A c \in Callers :
         /\ (call'[c].map # None /\ call'[c].map[1].tag # "Mac")
            => /\ call'[c].pc = "idle"
               /\ call'[c].ncalls = 0
               /\ result'[c] = Err(WrongCredentialPlatform)
               /\ Steps(c) => store' = store
         /\ call'[c].ncalls > 0 => call'[c].map[1].tag = "Mac"]_vars

C2_Witness ==
    \E c \in Callers, a \in MacAddrs :
        /\ call[c].op = "set"
        /\ call[c].map # None
        /\ call[c].map[1].tag = "Win"
        /\ result[c] = Err(WrongCredentialPlatform)
        /\ store[a] # None

\* C3: new_with_credential(cred) returns Ok exactly when cred matches the
\* current platform, that is when cred is the Mac variant; then the Entry's
\* target is cred, and otherwise no Entry is created.
C3_NewWithCredential ==
    \A c \in Callers :
        ctor[c].kind = "new_with_credential"
        => LET cred == ctor[c].cred[1]
           IN  /\ ctor[c].ok <=> matches_platform(cred, platform)
               /\ ctor[c].ok <=> cred.tag = "Mac"
               /\ ctor[c].ok => target[c] = Some(cred)
               /\ ~ctor[c].ok => target[c] = None

C3_Witness ==
    \E c, d \in Callers :
        /\ ctor[c].kind = "new_with_credential"
        /\ ctor[c].ok
        /\ target[c] = ctor[c].cred
        /\ ctor[d].kind = "new_with_credential"
        /\ ~ctor[d].ok
        /\ ctor[d].cred[1].tag = "Linux"

\* C4, as claimed: (SpecSeq) delete_password on an address that holds no
\* secret fails with NoEntry and leaves the store unchanged.
C4_DeleteAbsentIsNoEntry ==
    [][\A c \in Callers :
         (Returns(c, {"delete"}) /\ store[call'[c].map[1]] = None)
         => /\ result'[c] = Err(NoEntry)
            /\ store' = store]_vars

\* C4, amended: (SpecSeq) delete_password on an address that holds no secret
\* never returns Ok and leaves the store unchanged; it fails with the mapped
\* error of the native call that failed, which is NoEntry when the keychain
\* was opened and the lookup reported that the item is not found.
C4_DeleteAbsentFails ==
    [][\A c \in Callers :
         (Returns(c, {"delete"}) /\ store[call'[c].map[1]] = None)
         => /\ result'[c].tag = "Err"
            /\ store' = store
            /\ call'[c].failed # None
            /\ result'[c] = Err(decode_error(call'[c].failed[1]))
            /\ call'[c].failed[1] \in
                  KeychainFailures \cup ItemFailures \cup {errSecItemNotFound}
            /\ call'[c].failed[1] = errSecItemNotFound
                  <=> result'[c] = Err(NoEntry)
            /\ (call'[c].ncalls = 2 /\ call'[c].failed[1] \notin ItemFailures)
                  => result'[c] = Err(NoEntry)]_vars

C4_Witness ==
    \E c \in Callers :
        /\ call[c].pc = "idle"
        /\ call[c].op = "delete"
        /\ store[call[c].map[1]] = None
        /\ lastSet[call[c].map[1]] = NeverSet
        /\ result[c] = Err(NoEntry)

\* C5: whenever a native call made during an operation failed, the operation
\* returns the mapped error of that failure, never Ok; delete_password
\* returns Ok only if the native deletion removed the item.
C5_FailuresSurfaced ==
    \A c \in Callers :
        call[c].pc = "idle"
        => /\ call[c].failed # None
                => result[c] = Err(decode_error(call[c].failed[1]))
           /\ (call[c].op = "delete" /\ result[c].tag = "Ok")
                => call[c].removed

\* C6: decode_error maps -25291, -25292, -25294 and -25295 to NoStorageAccess
\* carrying the code, -25300 to NoEntry, and every other code to
\* PlatformFailure carrying the code; it never yields a success.
C6_DecodeErrorTable ==
    (input.kind = "code" /\ output # NoResult)
    => LET n == input.code
       IN  /\ output.tag = "Err"
           /\ n \in {-25291, -25292, -25294, -25295}
                => output.err[1] = [kind |-> "NoStorageAccess", code |-> n]
           /\ n = -25300 => output.err[1] = [kind |-> "NoEntry"]
           /\ n \notin {-25291, -25292, -25294, -25295, -25300}
                => output.err[1] = [kind |-> "PlatformFailure", code |-> n]

C6_Witness ==
    /\ input.kind = "code"
    /\ input.code = -25294
    /\ output.tag = "Err"
    /\ output.err[1].kind = "NoStorageAccess"

\* The bits a UTF-8 sequence of one char would carry, whatever its bytes.
PayloadOf(q) ==
    CASE Len(q) = 1 -> q[1]
      [] Len(q) = 2 -> (q[1] % 32) * 64 + (q[2] % 64)
      [] Len(q) = 3 -> (q[1] % 16) * 4096 + (q[2] % 64) * 64 + (q[3] % 64)
      [] OTHER -> (q[1] % 8) * 262144 + (q[2] % 64) * 4096 + (q[3] % 64) * 64
                    + (q[4] % 64)

\* q is the UTF-8 encoding of one scalar value.
EncodesOneChar(q) ==
    /\ IsScalarValue(PayloadOf(q))
    /\ Utf8EncodeChar(PayloadOf(q)) = q

\* bytes is the concatenation of encodings of scalar values: valid UTF-8.
RECURSIVE WellFormedUtf8(_)
WellFormedUtf8(bytes) ==
    \/ bytes = <<>>
    \/ \E k \in 1..(IF Len(bytes) < 4 THEN Len(bytes) ELSE 4) :
          /\ EncodesOneChar(SubSeq(bytes, 1, k))
          /\ WellFormedUtf8(SubSeq(bytes, k + 1, Len(bytes)))

\* The outcome res of decoding the stored bytes: Ok with a string of scalar
\* values whose bytes are exactly the input, or BadEncoding carrying exactly
\* the input.
DecodesExactly(res, bytes) ==
    IF res.tag = "Ok"
    THEN /\ as_bytes(res.password[1]) = bytes
         /\ \A i \in 1..Len(res.password[1]) : IsScalarValue(res.password[1][i])
    ELSE res = Err(BadEncoding(bytes))

\* The malformed sequences of the backend's own test.
MalformedExamples == {<<128>>, <<191>>, <<237, 160, 160>>}

\* C7: (SpecPure) decode_password, and get_password on an address holding the
\* bytes, return Ok exactly for the byte strings that are valid UTF-8, with
\* the string whose bytes are exactly the input (the string itself when the
\* bytes are those of a string), and otherwise BadEncoding carrying exactly
\* the input, as for the malformed sequences 80, BF and ED A0 A0.
C7_DecodePassword ==
    /\ (input.kind = "bytes" /\ output # NoResult)
       => /\ DecodesExactly(output, input.bytes)
          /\ output.tag = "Ok" <=> WellFormedUtf8(input.bytes)
          /\ input.bytes \in MalformedExamples
               => output = Err(BadEncoding(input.bytes))
          /\ input.chars # None => output = Ok(input.chars, None)
    /\ \A c \in Callers :
         (call[c].pc = "idle" /\ call[c].found # None)
         => /\ DecodesExactly([result[c] EXCEPT !.credential = None],
                              call[c].found[1])
            /\ result[c].tag = "Ok" <=> WellFormedUtf8(call[c].found[1])
            /\ call[c].found[1] \in MalformedExamples
                 => result[c] = Err(BadEncoding(call[c].found[1]))
            /\ input.chars # None => result[c].password = input.chars

C7_Witness ==
    /\ output = Err(BadEncoding(<<237, 160, 160>>))
    /\ \E c \in Callers :
         /\ call[c].op = "get"
         /\ store[call[c].map[1]] = Some(<<237, 160, 160>>)
         /\ result[c] = Err(BadEncoding(<<237, 160, 160>>))

\* C8: the target of an Entry made by new is default_target(platform, None,
\* service, username), that of one made by new_with_target is
\* default_target(platform, Some(t), service, username), in every state
\* after any operations; and the credential a get_password_and_credential
\* returned is that target.
C8_TargetIsDefaultTarget ==
    \A c \in Callers :
        /\ ctor[c].kind = "new"
           => /\ target[c] = Some(default_target(platform, None, ctor[c].service,
                                                 ctor[c].username))
              /\ target[c][1].domain = "User"
        /\ ctor[c].kind = "new_with_target"
           => target[c] = Some(default_target(platform, ctor[c].tgt,
                                              ctor[c].service, ctor[c].username))
        /\ ctor[c].kind \in {"new", "new_with_target"}
           => /\ target[c][1].tag = "Mac"
              /\ target[c][1].service = ctor[c].service
              /\ target[c][1].account = ctor[c].username
        /\ (call[c].op = "get_cred" /\ result[c].tag = "Ok")
           => /\ result[c].credential # None
              /\ result[c].credential = target[c]
        /\ (call[c].op # "get_cred" \/ result[c].tag # "Ok")
           => result[c].credential = None

C8_Witness ==
    \E c \in Callers :
        /\ ctor[c].kind = "new_with_target"
        /\ ctor[c].tgt = Some("system")
        /\ target[c][1].domain = "System"
        /\ call[c].op = "get_cred"
        /\ result[c].tag = "Ok"
        /\ result[c].credential = target[c]
        /\ lastSet[target[c][1]].known

\* No other caller holds an Entry for the address of caller c's Entry.
AloneAtAddress(c) == \A d \in Callers \ {c} : target[d] # target[c]

\* C9: (Spec, interleaved callers) a step of an operation on address a leaves
\* the secret at every other address unchanged; no step changes the target
\* an Entry holds; and when no other Entry has the address of the caller's
\* Entry and the last call that returned Ok there was a set_password, a
\* get_password that returns a password returns the one that call stored,
\* and it returns an error only if one of its own native calls failed.
C9_NoInterference ==
    [][\A c \in Callers :
         /\ Steps(c)
            => \A b \in MacAddrs :
                 b # call'[c].map[1] => store'[b] = store[b]
         /\ target[c] # None => target'[c] = target[c]
         /\ ( /\ Returns(c, {"get", "get_cred"})
              /\ AloneAtAddress(c)
              /\ lastSet[call'[c].map[1]].password # None )
            => /\ result'[c].tag = "Ok"
                    => result'[c].password = lastSet[call'[c].map[1]].password
               /\ result'[c].tag = "Err" => call'[c].failed # None
               /\ result'[c] # Err(NoEntry)]_vars

C9_Witness ==
    \E c, d \in Callers :
        /\ target[c] # None /\ target[d] # None
        /\ target[c] # target[d]
        /\ call[c].op = "get" /\ call[c].pc = "idle"
        /\ result[c] = Ok(Some(<<97>>), None)
        /\ call[d].pc = "delete"
        /\ store[target[d][1]] = Some(as_bytes(<<233>>))
        /\ store[target[c][1]] = Some(as_bytes(<<97>>))

NativeCallSequence(c) ==
    /\ call[c].ncalls \in 0..3
    /\ call[c].op = "none" => call[c].ncalls = 0
    /\ call[c].pc = "item" => call[c].ncalls = 1
    /\ call[c].pc = "delete" => (call[c].ncalls = 2 /\ call[c].op = "delete")
    /\ (call[c].pc = "idle" /\ call[c].op # "none")
       => /\ call[c].ncalls >= 1
          /\ call[c].ncalls = 1
               <=> (call[c].failed # None
                    /\ call[c].failed[1] \in KeychainFailures)
          /\ call[c].op \in {"set", "get", "get_cred"} => call[c].ncalls <= 2
          /\ result[c].tag = "Ok"
               <=> call[c].ncalls = (IF call[c].op = "delete" THEN 3 ELSE 2)
                   /\ (call[c].op = "delete" \/ call[c].failed = None)

====
